---- MODULE Spec2Model ----
(***************************************************************************)
(* Model of the tunnel engine of src/src/lib.rs: Tunnel<T> (player,        *)
(* screen_width, walls), its row generation (add_one_row/clone_last_row),  *)
(* the collision test and the lazy cell iterator (TunnelIterator).         *)
(* The index type T is an unsigned integer type with values 0..IdxMax.     *)
(***************************************************************************)
EXTENDS Integers, Sequences, FiniteSets, TLC

\* T::MAX of the (scaled-down) unsigned index type T
IdxMax == 6

\* how many rows past IdxMax the private add_one_row may push the buffer
MaxOverflow == 1

\* how many builder calls a run makes before it stops advancing rows
MaxCalls == 7

Idx == 0..IdxMax

\* Option<T>: None is the empty tuple, Some(v) the one-element tuple
None == <<>>

Some(v) == <<v>>

zero == 0

one == 1

two == 2

three == 3

saturating_sub(a, b) == IF a >= b THEN a - b ELSE 0

saturating_add(a, b) == IF a + b <= IdxMax THEN a + b ELSE IdxMax

rows_to_loop_iterations_off_by_one(rows) == saturating_sub(rows, two)

rows_to_loop_iterations_no_bias(rows) == rows

rows_to_loop_iterations(rows) == saturating_sub(rows, three)

TunnelBuilderChoice == {"MoveLeftWall", "MoveRightWall"}

TunnelCellType == {"Player", "Floor", "Wall"}

TunnelWalls(l, g) == [left_wall |-> l, gap_to_right_wall |-> g]

\* player, screen_width, walls: the fields of Tunnel
\* height: the rows argument of Tunnel::new; op: the method that ran last
\* builder_calls: the TunnelBuilder methods called so far, in call order
\* chosen: the last answer of choose_step ("none" before the first call)
\* rows_pushed: how many times walls.push_back has run
\* iterating: the TunnelIterator borrowed from the tunnel, if any, with the
\*            items it has yielded and whether it has returned None
VARIABLES player, screen_width, walls, height, op,
          builder_calls, chosen, rows_pushed, iterating

vars == <<player, screen_width, walls, height, op,
          builder_calls, chosen, rows_pushed, iterating>>

----------------------------------------------------------------------------
\* TunnelWalls

in_wall_strict_left(w, column) ==
    \/ column < w.left_wall
    \/ column > saturating_add(w.left_wall, w.gap_to_right_wall)

in_wall(w, column) ==
    \/ column <= w.left_wall
    \/ column > saturating_add(w.left_wall, w.gap_to_right_wall)

cell_type_any_row(w, p, row, column) ==
    IF column = p THEN "Player"
    ELSE IF in_wall(w, column) THEN "Wall"
    ELSE "Floor"

cell_type(w, p, row, column) ==
    IF row = zero /\ column = p THEN "Player"
    ELSE IF in_wall(w, column) THEN "Wall"
    ELSE "Floor"

----------------------------------------------------------------------------
\* Tunnel: row generation

\* result of clone_last_row: the buffer after the call and the returned row
clone_last_row_no_seed_push(ws, cols) ==
    IF ws # <<>>
    THEN [walls |-> ws, new_row |-> ws[Len(ws)]]
    ELSE LET new_row == TunnelWalls(zero, saturating_sub(cols, two))
         IN  [walls |-> ws, new_row |-> new_row]

clone_last_row_narrow_seed(ws, cols) ==
    IF ws # <<>>
    THEN [walls |-> ws, new_row |-> ws[Len(ws)]]
    ELSE LET new_row == TunnelWalls(zero, saturating_sub(cols, three))
         IN  [walls |-> Append(ws, new_row), new_row |-> new_row]

clone_last_row_clones_front(ws, cols) ==
    IF ws # <<>>
    THEN [walls |-> ws, new_row |-> ws[1]]
    ELSE LET new_row == TunnelWalls(zero, saturating_sub(cols, two))
         IN  [walls |-> Append(ws, new_row), new_row |-> new_row]

clone_last_row(ws, cols) ==
    IF ws # <<>>
    THEN [walls |-> ws, new_row |-> ws[Len(ws)]]
    ELSE LET new_row == TunnelWalls(zero, saturating_sub(cols, two))
         IN  [walls |-> Append(ws, new_row), new_row |-> new_row]

add_one_row_shrink_to_zero(ws, cols, choice) ==
    LET c    == clone_last_row(ws, cols)
        gap  == IF c.new_row.gap_to_right_wall >= one
                THEN c.new_row.gap_to_right_wall - one
                ELSE c.new_row.gap_to_right_wall
        left == c.new_row.left_wall
        left2 == IF choice = "MoveLeftWall"
                 THEN IF saturating_add(left, three) < cols
                      THEN left + one ELSE left
                 ELSE IF gap = one
                      THEN saturating_sub(left, one) ELSE left
    IN  Append(c.walls, TunnelWalls(left2, gap))

add_one_row_left_guard_two(ws, cols, choice) ==
    LET c    == clone_last_row(ws, cols)
        gap  == IF c.new_row.gap_to_right_wall > one
                THEN c.new_row.gap_to_right_wall - one
                ELSE c.new_row.gap_to_right_wall
        left == c.new_row.left_wall
        left2 == IF choice = "MoveLeftWall"
                 THEN IF saturating_add(left, two) < cols
                      THEN left + one ELSE left
                 ELSE IF gap = one
                      THEN saturating_sub(left, one) ELSE left
    IN  Append(c.walls, TunnelWalls(left2, gap))

add_one_row_right_always(ws, cols, choice) ==
    LET c    == clone_last_row(ws, cols)
        gap  == IF c.new_row.gap_to_right_wall > one
                THEN c.new_row.gap_to_right_wall - one
                ELSE c.new_row.gap_to_right_wall
        left == c.new_row.left_wall
        left2 == IF choice = "MoveLeftWall"
                 THEN IF saturating_add(left, three) < cols
                      THEN left + one ELSE left
                 ELSE saturating_sub(left, one)
    IN  Append(c.walls, TunnelWalls(left2, gap))

add_one_row_narrow_on_left_only(ws, cols, choice) ==
    LET c    == clone_last_row(ws, cols)
        gap  == IF c.new_row.gap_to_right_wall > one /\ choice = "MoveLeftWall"
                THEN c.new_row.gap_to_right_wall - one
                ELSE c.new_row.gap_to_right_wall
        left == c.new_row.left_wall
        left2 == IF choice = "MoveLeftWall"
                 THEN IF saturating_add(left, three) < cols
                      THEN left + one ELSE left
                 ELSE IF gap = one
                      THEN saturating_sub(left, one) ELSE left
    IN  Append(c.walls, TunnelWalls(left2, gap))

add_one_row(ws, cols, choice) ==
    LET c    == clone_last_row(ws, cols)
        gap  == IF c.new_row.gap_to_right_wall > one
                THEN c.new_row.gap_to_right_wall - one
                ELSE c.new_row.gap_to_right_wall
        left == c.new_row.left_wall
        left2 == IF choice = "MoveLeftWall"
                 THEN IF saturating_add(left, three) < cols
                      THEN left + one ELSE left
                 ELSE IF gap = one
                      THEN saturating_sub(left, one) ELSE left
    IN  Append(c.walls, TunnelWalls(left2, gap))

\* the pre-fill loop of Tunnel::new: one add_one_row per builder choice
RECURSIVE prefill(_, _, _, _)
prefill(ws, cols, choices, i) ==
    IF i > Len(choices) THEN ws
    ELSE prefill(add_one_row(ws, cols, choices[i]), cols, choices, i + 1)

\* Tunnel::new(b, rows, cols), b answering start and then choices in order
Tunnel_new(rows, cols, start, choices) ==
    [player |-> start, screen_width |-> cols,
     walls |-> prefill(<<>>, cols, choices, 1)]

----------------------------------------------------------------------------
\* Tunnel: queries

is_collision_back_row ==
    IF walls # <<>> THEN in_wall(walls[Len(walls)], player) ELSE FALSE

is_collision_empty_collides ==
    IF walls # <<>> THEN in_wall(Head(walls), player) ELSE TRUE

is_collision ==
    IF walls # <<>> THEN in_wall(Head(walls), player) ELSE FALSE

\* FromPrimitive::from_usize for T
from_usize(n) == IF n <= IdxMax THEN Some(n) ELSE None

\* Cycle<NumRange<T>>::next: pos is the position inside the current lap
cycle_next(cols) ==
    IF cols.max = zero THEN [val |-> None, cols |-> cols]
    ELSE IF cols.pos < cols.max
         THEN [val |-> Some(cols.pos), cols |-> [cols EXCEPT !.pos = cols.pos + 1]]
         ELSE [val |-> Some(zero), cols |-> [cols EXCEPT !.pos = 1]]

iter_saturating_len(ws, p, cols) ==
    LET c == from_usize(Len(ws))
        w_len == IF c # None THEN c[1] ELSE IdxMax
    IN  [player |-> p, w_len |-> w_len, row |-> 0,
         cols |-> [pos |-> 0, max |-> cols]]

\* Tunnel::iter: row is the number of (index, row) pairs already consumed
iter(ws, p, cols) ==
    LET c == from_usize(Len(ws))
        w_len == IF c # None THEN c[1] ELSE zero
    IN  [player |-> p, w_len |-> w_len, row |-> 0,
         cols |-> [pos |-> 0, max |-> cols]]

\* Peekable<Zip<NumRange<T>, VecDequeIterator>>::peek
rows_peek(it, ws) ==
    IF it.row < it.w_len /\ it.row < Len(ws)
    THEN Some(<<it.row, ws[it.row + 1]>>)
    ELSE None

TunnelIterator_next_always_advance(it, ws) ==
    LET r == rows_peek(it, ws)
    IN  IF r = None THEN [item |-> None, it |-> it]
        ELSE LET row  == r[1][1]
                 w    == r[1][2]
                 c    == cycle_next(it.cols)
                 item == IF c.val # None
                         THEN Some(<<row, c.val[1],
                                     cell_type(w, it.player, row, c.val[1])>>)
                         ELSE None
                 peek == cycle_next(c.cols).val
                 adv  == peek # None
             IN  [item |-> item,
                  it |-> [it EXCEPT !.cols = c.cols,
                                    !.row = IF adv THEN it.row + 1 ELSE it.row]]

\* TunnelIterator::next: the yielded Option and the iterator afterwards
TunnelIterator_next(it, ws) ==
    LET r == rows_peek(it, ws)
    IN  IF r = None THEN [item |-> None, it |-> it]
        ELSE LET row  == r[1][1]
                 w    == r[1][2]
                 c    == cycle_next(it.cols)
                 item == IF c.val # None
                         THEN Some(<<row, c.val[1],
                                     cell_type(w, it.player, row, c.val[1])>>)
                         ELSE None
                 peek == cycle_next(c.cols).val
                 adv  == peek # None /\ peek[1] = zero
             IN  [item |-> item,
                  it |-> [it EXCEPT !.cols = c.cols,
                                    !.row = IF adv THEN it.row + 1 ELSE it.row]]

\* consuming an iterator to its first None (for loop, count, collect)
RECURSIVE collect(_, _, _)
collect(it, ws, acc) ==
    LET n == TunnelIterator_next(it, ws)
    IN  IF n.item = None THEN acc
        ELSE collect(n.it, ws, Append(acc, n.item[1]))

\* one full pass of t.iter() over the current tunnel
Enumerate == collect(iter(walls, player, screen_width), walls, <<>>)

----------------------------------------------------------------------------
\* Behaviour

\* the builder methods Tunnel::new calls, in order: choose_player_start
\* once, then one choose_step per pre-fill iteration
new_builder_calls(choices) ==
    <<"choose_player_start">> \o [i \in 1..Len(choices) |-> "choose_step"]

\* how many push_back calls one add_one_row makes on the buffer ws
pushes(ws, cols, choice) == Len(add_one_row(ws, cols, choice)) - Len(ws)

Init ==
    \E rows \in Idx, cols \in Idx, start \in Idx :
        \E choices \in [1..rows_to_loop_iterations(rows) -> TunnelBuilderChoice] :
            LET t == Tunnel_new(rows, cols, start, choices)
            IN  /\ player = t.player
                /\ screen_width = t.screen_width
                /\ walls = t.walls
                /\ height = rows
                /\ op = "new"
                /\ builder_calls = new_builder_calls(choices)
                /\ chosen = IF Len(choices) = 0 THEN "none"
                            ELSE choices[Len(choices)]
                /\ rows_pushed = Len(t.walls)
                /\ iterating = None

move_player_right_wrapping ==
    /\ iterating = None
    /\ player' = (player + one) % (IdxMax + 1)
    /\ op' = "move_player_right"
    /\ UNCHANGED <<screen_width, walls, height,
                   builder_calls, chosen, rows_pushed, iterating>>

\* the &mut self methods need the tunnel unborrowed: iterating = None
move_player_left ==
    /\ iterating = None
    /\ player' = saturating_sub(player, one)
    /\ op' = "move_player_left"
    /\ UNCHANGED <<screen_width, walls, height,
                   builder_calls, chosen, rows_pushed, iterating>>

move_player_right ==
    /\ iterating = None
    /\ player' = saturating_add(player, one)
    /\ op' = "move_player_right"
    /\ UNCHANGED <<screen_width, walls, height,
                   builder_calls, chosen, rows_pushed, iterating>>

step_asks_twice ==
    \E choice \in TunnelBuilderChoice :
        /\ iterating = None
        /\ Len(builder_calls) < MaxCalls
        /\ walls' = Tail(add_one_row(walls, screen_width, choice))
        /\ op' = "step"
        /\ builder_calls' = builder_calls \o <<"choose_step", "choose_step">>
        /\ chosen' = choice
        /\ rows_pushed' = rows_pushed + pushes(walls, screen_width, choice)
        /\ UNCHANGED <<player, screen_width, height, iterating>>

step_no_pop ==
    \E choice \in TunnelBuilderChoice :
        /\ iterating = None
        /\ Len(builder_calls) < MaxCalls
        /\ walls' = add_one_row(walls, screen_width, choice)
        /\ op' = "step"
        /\ builder_calls' = Append(builder_calls, "choose_step")
        /\ chosen' = choice
        /\ rows_pushed' = rows_pushed + pushes(walls, screen_width, choice)
        /\ UNCHANGED <<player, screen_width, height, iterating>>

step_clamps_player ==
    \E choice \in TunnelBuilderChoice :
        /\ iterating = None
        /\ Len(builder_calls) < MaxCalls
        /\ walls' = Tail(add_one_row(walls, screen_width, choice))
        /\ op' = "step"
        /\ builder_calls' = Append(builder_calls, "choose_step")
        /\ chosen' = choice
        /\ rows_pushed' = rows_pushed + pushes(walls, screen_width, choice)
        /\ player' = IF player >= screen_width
                      THEN saturating_sub(screen_width, one) ELSE player
        /\ UNCHANGED <<screen_width, height, iterating>>

step ==
    \E choice \in TunnelBuilderChoice :
        /\ iterating = None
        /\ Len(builder_calls) < MaxCalls
        /\ walls' = Tail(add_one_row(walls, screen_width, choice))
        /\ op' = "step"
        /\ builder_calls' = Append(builder_calls, "choose_step")
        /\ chosen' = choice
        /\ rows_pushed' = rows_pushed + pushes(walls, screen_width, choice)
        /\ UNCHANGED <<player, screen_width, height, iterating>>

\* the private add_one_row called directly, as the overflow test does; the
\* method has no precondition, so any number of calls may follow Tunnel::new
add_one_row_direct ==
    \E choice \in TunnelBuilderChoice :
        /\ iterating = None
        /\ Len(builder_calls) < MaxCalls
        /\ Len(walls) < IdxMax + MaxOverflow
        /\ walls' = add_one_row(walls, screen_width, choice)
        /\ op' = "add_one_row"
        /\ builder_calls' = Append(builder_calls, "choose_step")
        /\ chosen' = choice
        /\ rows_pushed' = rows_pushed + pushes(walls, screen_width, choice)
        /\ UNCHANGED <<player, screen_width, height, iterating>>

Next == move_player_left \/ move_player_right \/ step

Spec == Init /\ [][Next]_vars

NextPrivate == Next \/ add_one_row_direct

SpecPrivate == Init /\ [][NextPrivate]_vars

\* the overflow test's run: Tunnel::new, then nothing but direct calls of
\* add_one_row, with a pass of iter() wherever the run stands
NextOverflow == add_one_row_direct

SpecOverflow == Init /\ [][NextOverflow]_vars

\* IntoIterator for &Tunnel
into_iter(ws, p, cols) == iter(ws, p, cols)

\* a TunnelIterator just obtained: nothing yielded, None not yet returned
borrowed(it) == Some([it |-> it, yielded |-> <<>>, done |-> FALSE])

iter_call_resumes ==
    /\ iterating' = IF iterating # None THEN iterating
                    ELSE borrowed(iter(walls, player, screen_width))
    /\ op' = "iter"
    /\ UNCHANGED <<player, screen_width, walls, height,
                   builder_calls, chosen, rows_pushed>>

\* t.iter(): a new iterator; one obtained earlier is given up
iter_call ==
    /\ iterating' = borrowed(iter(walls, player, screen_width))
    /\ op' = "iter"
    /\ UNCHANGED <<player, screen_width, walls, height,
                   builder_calls, chosen, rows_pushed>>

\* for _ in &t: a new iterator through IntoIterator
into_iter_call ==
    /\ iterating' = borrowed(into_iter(walls, player, screen_width))
    /\ op' = "into_iter"
    /\ UNCHANGED <<player, screen_width, walls, height,
                   builder_calls, chosen, rows_pushed>>

\* one call of next() on the borrowed iterator
next_call ==
    /\ iterating # None
    /\ ~iterating[1].done
    /\ LET n == TunnelIterator_next(iterating[1].it, walls)
       IN  iterating' =
               Some([it |-> n.it,
                     yielded |-> IF n.item = None THEN iterating[1].yielded
                                 ELSE Append(iterating[1].yielded, n.item[1]),
                     done |-> n.item = None])
    /\ op' = "next"
    /\ UNCHANGED <<player, screen_width, walls, height,
                   builder_calls, chosen, rows_pushed>>

\* the iterator goes out of scope, used up or not
drop_iterator ==
    /\ iterating # None
    /\ iterating' = None
    /\ op' = "drop"
    /\ UNCHANGED <<player, screen_width, walls, height,
                   builder_calls, chosen, rows_pushed>>

NextIter ==
    Next \/ iter_call \/ into_iter_call \/ next_call \/ drop_iterator

SpecIter == Init /\ [][NextIter]_vars

TypeOK ==
    /\ player \in Idx
    /\ screen_width \in Idx
    /\ height \in Idx
    /\ walls \in Seq([left_wall : Idx, gap_to_right_wall : Idx])
    /\ op \in {"new", "move_player_left", "move_player_right", "step",
               "add_one_row", "iter", "into_iter", "next", "drop"}
    /\ builder_calls \in Seq({"choose_player_start", "choose_step"})
    /\ chosen \in TunnelBuilderChoice \cup {"none"}
    /\ rows_pushed \in Nat
    /\ \/ iterating = None
       \/ /\ Len(iterating) = 1
          /\ iterating[1].done \in BOOLEAN

----------------------------------------------------------------------------
\* Helpers for stating the properties

Rows == 1..Len(walls)

front == Head(walls)

\* the columns of T a row lets the player through
Passable(w) ==
    {c \in Idx : /\ w.left_wall < c
                 /\ c <= w.left_wall + w.gap_to_right_wall
                 /\ c <= IdxMax}

Max(a, b) == IF a >= b THEN a ELSE b

\* the kinds of the cells of row 0, in the order enumerated
FirstRowKinds ==
    LET r == SelectSeq(Enumerate, LAMBDA c : c[1] = 0)
    IN  [k \in 1..Len(r) |-> r[k][3]]

\* (row, column) of every enumerated cell, in the order enumerated
EnumeratedCoordinates ==
    LET e == Enumerate
    IN  [k \in 1..Len(e) |-> <<e[k][1], e[k][2]>>]

\* n rows of w columns in row-major order
RowMajor(n, w) ==
    [k \in 1..(n * w) |-> <<(k - 1) \div w, (k - 1) % w>>]

----------------------------------------------------------------------------
\* C1 as stated: for every construction (height, width), every row held in
\* a non-empty buffer has gap_to_right_wall >= 1.
C1_GapAtLeastOneAnyWidth ==
    \A i \in Rows : walls[i].gap_to_right_wall >= 1

\* C1 amended: for every construction with width >= 3 and every sequence of
\* builder choices, every buffered row has gap_to_right_wall >= 1.
C1_GapAtLeastOne ==
    screen_width >= 3 => \A i \in Rows : walls[i].gap_to_right_wall >= 1

\* the narrowing rule met a gap of 1 and left it alone
C1_Witness ==
    /\ op = "step"
    /\ screen_width >= 4
    /\ Len(walls) >= 2
    /\ walls[Len(walls) - 1].gap_to_right_wall = 1
    /\ walls[Len(walls)].gap_to_right_wall = 1

\* C2: with a front row, is_collision is false exactly when the player
\* column is inside the front row's passable range
\* (left_wall < column <= left_wall + gap, saturating) and true otherwise;
\* the wall columns bounding the range are collisions.
C2_CollisionIffOutsidePassable ==
    walls # <<>> =>
        /\ is_collision <=> player \notin Passable(front)
        /\ player = front.left_wall => is_collision
        /\ player = front.left_wall + front.gap_to_right_wall + 1 => is_collision

\* the player stands on the left wall column of a front row that has moved
C2_Witness ==
    /\ Len(walls) >= 2
    /\ front.left_wall > 0
    /\ player = front.left_wall
    /\ walls[Len(walls)].left_wall # front.left_wall
    /\ is_collision

\* C3 as stated: immediately after Tunnel::new the buffer holds exactly
\* max(height - 3, 0) rows.
C3_PrefillHeightMinusThree ==
    op = "new" => Len(walls) = Max(height - 3, 0)

\* C3 amended: immediately after Tunnel::new the buffer holds no rows when
\* height <= 3 and height - 2 rows otherwise (the first add_one_row stores
\* the seed row and the generated row).
C3_PrefillRowCount ==
    op = "new" => Len(walls) = IF height <= 3 THEN 0 ELSE height - 2

C3_Witness ==
    /\ op = "new"
    /\ height >= 4
    /\ Len(walls) = height - 2

\* C4: immediately after Tunnel::new with height >= 4, one pass of iter()
\* yields exactly (height - 2) * width cells.
C4_CellCountAfterNew ==
    (op = "new" /\ height >= 4) =>
        Len(Enumerate) = (height - 2) * screen_width

\* the largest tunnel of the index type, as in the u8 test
C4_Witness ==
    /\ op = "new"
    /\ height = IdxMax
    /\ screen_width = IdxMax
    /\ Len(Enumerate) = (IdxMax - 2) * IdxMax

\* C5: after Tunnel::new with height in {0,1,2} the buffer is empty, and
\* stays empty until the first step; in the empty state iter() yields no
\* cells and is_collision is false whatever the player column is.
C5_EmptyUntilFirstStep ==
    /\ []((op = "new" /\ height \in 0..2) => walls = <<>>)
    /\ [](walls = <<>> => (Enumerate = <<>> /\ ~is_collision))
    /\ [][(walls = <<>> /\ op' # "step") => walls' = <<>>]_vars

C5_Witness ==
    /\ height \in 0..2
    /\ walls = <<>>
    /\ op = "move_player_right"
    /\ player > 0
    /\ screen_width > 0

\* C6: with width 0, is_collision is true after the first step and after
\* every later one, and iter() yields no cells in any state.
C6_ZeroWidth ==
    screen_width = 0 =>
        /\ Enumerate = <<>>
        /\ op = "step" => walls # <<>>
        /\ walls # <<>> => is_collision

C6_Witness ==
    /\ screen_width = 0
    /\ op = "step"
    /\ walls # <<>>
    /\ is_collision
    /\ Enumerate = <<>>

\* C7: for width >= 3, immediately after a Tunnel::new that buffers a row,
\* the front row's passable columns are exactly 1..width-2 whatever the
\* builder chose; width 5, height 5, player start 3 enumerates row 0 as
\* Wall, Floor, Floor, Player, Wall.
C7_FrontRowAfterNew ==
    (op = "new" /\ screen_width >= 3 /\ walls # <<>>) =>
        /\ {c \in 0..(screen_width - 1) : ~in_wall(front, c)}
               = 1..(screen_width - 2)
        /\ (height = 5 /\ screen_width = 5 /\ player = 3) =>
               FirstRowKinds = <<"Wall", "Floor", "Floor", "Player", "Wall">>

\* the scenario of always_move_left_wall: two rows narrowed from the left
C7_Witness ==
    /\ op = "new"
    /\ height = 5
    /\ screen_width = 5
    /\ player = 3
    /\ walls[Len(walls)].left_wall = 2
    /\ FirstRowKinds = <<"Wall", "Floor", "Floor", "Player", "Wall">>

C9_CellKinds ==
    LET e == Enumerate
    IN  /\ \A k \in 1..Len(e) :
            LET row == e[k][1]
                col == e[k][2]
                w   == walls[row + 1]
            IN  e[k][3] =
                    IF row = 0 /\ col = player THEN "Player"
                    ELSE IF \/ col <= w.left_wall
                            \/ col > w.left_wall + w.gap_to_right_wall
                         THEN "Wall"
                         ELSE "Floor"
        /\ Cardinality({k \in 1..Len(e) : e[k][3] = "Player"}) <= 1
        /\ \A k \in 1..Len(e) : e[k][3] = "Player" => e[k][1] = 0
        /\ player >= screen_width =>
               \A k \in 1..Len(e) : e[k][3] # "Player"

\* the player is drawn over a wall column, with later rows behind it
C9_Witness ==
    /\ Len(walls) >= 2
    /\ player < screen_width
    /\ in_wall(front, player)
    /\ ~in_wall(walls[2], player)
    /\ \E k \in 1..Len(Enumerate) : Enumerate[k] = <<0, player, "Player">>

\* C10: a tunnel built with height = width = IdxMax enumerates cells; once
\* add_one_row has pushed the row count past IdxMax, iter() yields nothing.
C10_OverflowEnumeratesNothing ==
    (height = IdxMax /\ screen_width = IdxMax) =>
        /\ op = "new" => Enumerate # <<>>
        /\ Len(walls) > IdxMax => Enumerate = <<>>

C10_Witness ==
    /\ height = IdxMax
    /\ screen_width = IdxMax
    /\ op = "add_one_row"
    /\ Len(walls) > IdxMax
    /\ Enumerate = <<>>

----------------------------------------------------------------------------
\* Helpers for the properties of the operations

Min(a, b) == IF a <= b THEN a ELSE b

back == walls[Len(walls)]

\* how many times the builder method was called so far
NumCalls(method) ==
    Cardinality({i \in 1..Len(builder_calls) : builder_calls[i] = method})

IsPrefix(a, b) ==
    /\ Len(a) <= Len(b)
    /\ \A i \in 1..Len(a) : a[i] = b[i]

\* how many rows were generated after the seed row before buffer row i
GeneratedAfterSeed(i) == rows_pushed - Len(walls) + i - 1

\* C11: move_player_left sets player to max(player - 1, 0) and
\* move_player_right to min(player + 1, IdxMax); the value stays in the
\* index type and never wraps.
C11_SaturatingMoves ==
    /\ [](player \in Idx)
    /\ [][/\ op' = "move_player_left" => player' = Max(player - 1, 0)
          /\ op' = "move_player_right" => player' = Min(player + 1, IdxMax)
          /\ (op' = "move_player_left" /\ player = 0) => player' = 0
          /\ (op' = "move_player_right" /\ player = IdxMax) => player' = IdxMax
         ]_vars

C11_Witness ==
    /\ op = "move_player_right"
    /\ player = IdxMax

\* C12 as stated: the number of choose_step calls equals the number of rows
\* ever appended to the buffer; choose_player_start is called exactly once,
\* before any choose_step.
C12_OneChoicePerAppendedRow ==
    /\ NumCalls("choose_step") = rows_pushed
    /\ NumCalls("choose_player_start") = 1
    /\ builder_calls[1] = "choose_player_start"

\* C12 amended: the number of choose_step calls equals the number of rows
\* ever appended not counting the seed row (one more row than calls once
\* any row exists); choose_player_start is called exactly once, first.
C12_OneChoicePerGeneratedRow ==
    /\ rows_pushed = IF NumCalls("choose_step") = 0 THEN 0
                     ELSE NumCalls("choose_step") + 1
    /\ NumCalls("choose_player_start") = 1
    /\ builder_calls[1] = "choose_player_start"

C12_Witness ==
    /\ op = "step"
    /\ height <= 3
    /\ NumCalls("choose_step") = 3
    /\ rows_pushed = 4
    /\ Len(walls) = 1

\* C13: obtaining and consuming an enumeration, fully or partly, leaves
\* player, screen_width and walls unchanged; every enumeration, from iter()
\* or from into_iter(), starts at the beginning and yields the one
\* sequence of the tunnel state it was obtained in.
C13_EnumerationReadOnlyRestartable ==
    /\ [][op' \in {"iter", "into_iter", "next", "drop"}
            => UNCHANGED <<player, screen_width, walls>>]_vars
    /\ [](op \in {"iter", "into_iter"} =>
            (iterating # None /\ iterating[1].yielded = <<>>))
    /\ [](iterating # None =>
            /\ IsPrefix(iterating[1].yielded, Enumerate)
            /\ iterating[1].done => iterating[1].yielded = Enumerate)

\* a pass over several rows ran to its end
C13_Witness ==
    /\ iterating # None
    /\ iterating[1].done
    /\ Len(walls) >= 2
    /\ screen_width >= 3
    /\ Len(iterating[1].yielded) = Len(walls) * screen_width

\* C14: for width >= 3 every buffered row has
\* left_wall + gap_to_right_wall <= width - 2, so left_wall <= width - 3
\* and column width - 1 is a wall column.
C14_LeftWallNeverOvertakes ==
    screen_width >= 3 =>
        \A i \in Rows :
            /\ walls[i].left_wall + walls[i].gap_to_right_wall
                   <= screen_width - 2
            /\ walls[i].left_wall <= screen_width - 3
            /\ in_wall(walls[i], screen_width - 1)

\* the left wall has gone as far right as it may
C14_Witness ==
    /\ op = "step"
    /\ screen_width >= 5
    /\ chosen = "MoveLeftWall"
    /\ Len(walls) >= 2
    /\ back.left_wall = screen_width - 3
    /\ walls[Len(walls) - 1].left_wall = screen_width - 3

\* MoveRightWall as C15 states it: the left wall of the new row is that of
\* the row it was cloned from unless that row's gap is 1, and then it is
\* one less (saturating at 0)
RightOnlyWhenBackGapOne(old, new) ==
    new.left_wall =
        IF old.gap_to_right_wall = 1
        THEN saturating_sub(old.left_wall, 1)
        ELSE old.left_wall

\* MoveRightWall on the narrowed row: one less (saturating at 0) when the
\* cloned row's gap is 1 or 2, so that the new row's gap is 1; unchanged
\* when the cloned row's gap is 0 or above 2
RightWhenNewGapOne(old, new) ==
    /\ new.left_wall =
           IF old.gap_to_right_wall \in {1, 2}
           THEN saturating_sub(old.left_wall, 1)
           ELSE old.left_wall
    /\ old.gap_to_right_wall > 2 =>
           /\ new.left_wall = old.left_wall
           /\ new.gap_to_right_wall > 1
    /\ new.left_wall # old.left_wall => new.gap_to_right_wall = 1

\* C15 as stated: when a row is added with choice MoveRightWall, by the
\* last iteration of Tunnel::new or by a step, the new row's left_wall is
\* the back row's left_wall unless the back row's gap is 1, and then it is
\* one less (saturating at 0).
C15_RightOnlyWhenBackGapOne ==
    /\ []((op = "new" /\ chosen = "MoveRightWall" /\ Len(walls) >= 2) =>
            RightOnlyWhenBackGapOne(walls[Len(walls) - 1], back))
    /\ [][(op' \in {"step", "add_one_row"} /\ chosen' = "MoveRightWall") =>
            RightOnlyWhenBackGapOne(
                clone_last_row(walls, screen_width).new_row,
                walls'[Len(walls')])]_vars

\* C15 amended: when a row is added with choice MoveRightWall, by the last
\* iteration of Tunnel::new or by a step, the new row's left_wall is one
\* less than the back row's (saturating at 0) when the new row's gap after
\* the default narrowing is 1, that is when the back row's gap is 1 or 2;
\* when the back row's gap is above 2 (or 0) it is the back row's
\* left_wall.
C15_RightWhenNewGapOne ==
    /\ []((op = "new" /\ chosen = "MoveRightWall" /\ Len(walls) >= 2) =>
            RightWhenNewGapOne(walls[Len(walls) - 1], back))
    /\ [][(op' \in {"step", "add_one_row"} /\ chosen' = "MoveRightWall") =>
            RightWhenNewGapOne(
                clone_last_row(walls, screen_width).new_row,
                walls'[Len(walls')])]_vars

\* width 6: MoveRightWall left the wall of a gap-3 row at column 1 (no-op,
\* where MoveLeftWall would have moved it), and the step just taken pulled
\* the wall of the gap-2 row after it back to column 0
C15_Witness ==
    /\ op = "step"
    /\ chosen = "MoveRightWall"
    /\ screen_width = 6
    /\ Len(walls) >= 3
    /\ walls[Len(walls) - 2] = TunnelWalls(1, 3)
    /\ walls[Len(walls) - 1] = TunnelWalls(1, 2)
    /\ back = TunnelWalls(0, 1)

\* the no-op case on its own: the step just taken chose MoveRightWall on a
\* back row of gap 3 whose left wall is off column 0, and left it there
C15_NoOpReached ==
    /\ op = "step"
    /\ chosen = "MoveRightWall"
    /\ Len(walls) >= 2
    /\ walls[Len(walls) - 1].gap_to_right_wall = 3
    /\ walls[Len(walls) - 1].left_wall >= 1
    /\ back.left_wall = walls[Len(walls) - 1].left_wall
    /\ back.gap_to_right_wall = 2

\* what a step does to the buffer: on a non-empty buffer the count stays,
\* the old front row goes, the others keep their order and the new row is
\* at the back; on an empty buffer exactly one row is left
StepIsFifo ==
    op' = "step" =>
        IF walls # <<>>
        THEN /\ Len(walls') = Len(walls)
             /\ \A i \in 1..(Len(walls) - 1) : walls'[i] = walls[i + 1]
             /\ walls'[Len(walls')] =
                    add_one_row(walls, screen_width, chosen')[Len(walls) + 1]
        ELSE Len(walls') = 1

\* C16 as stated: a step is a FIFO shift (StepIsFifo) and the row count
\* never grows after construction.
C16_FifoNeverGrows ==
    /\ [][StepIsFifo]_vars
    /\ [][Len(walls') <= Len(walls)]_vars

\* C16 amended: a step is a FIFO shift (StepIsFifo) and the row count never
\* grows after construction, except that the first step on an empty buffer
\* takes it from 0 to 1.
C16_FifoGrowsOnlyFromEmpty ==
    /\ [][StepIsFifo]_vars
    /\ [][\/ Len(walls') <= Len(walls)
          \/ (walls = <<>> /\ op' = "step" /\ Len(walls') = 1)]_vars

\* a full buffer has scrolled more than once
C16_Witness ==
    /\ op = "step"
    /\ Len(walls) >= 3
    /\ rows_pushed >= Len(walls) + 2

\* C17: for width >= 3 the k-th row generated after the seed row has gap
\* max(width - 2 - k, 1) whatever the builder chose, so from the
\* (width - 3)-th on every row has gap 1 and the gap never increases.
C17_NarrowsEveryRow ==
    screen_width >= 3 =>
        /\ \A i \in Rows :
              /\ walls[i].gap_to_right_wall =
                     Max(screen_width - 2 - GeneratedAfterSeed(i), 1)
              /\ GeneratedAfterSeed(i) >= screen_width - 3
                     => walls[i].gap_to_right_wall = 1
        /\ \A i \in 1..(Len(walls) - 1) :
              walls[i + 1].gap_to_right_wall <= walls[i].gap_to_right_wall

\* a buffer that has scrolled and still holds the narrowing rows
C17_Witness ==
    /\ op = "step"
    /\ screen_width = 5
    /\ Len(walls) >= 3
    /\ rows_pushed = Len(walls) + 1
    /\ walls[1].gap_to_right_wall = 2
    /\ walls[2].gap_to_right_wall = 1
    /\ walls[3].gap_to_right_wall = 1

\* C18: screen_width never changes; the player moves leave walls
\* unchanged; step and add_one_row leave player unchanged, also when the
\* player column is outside the corridor.
C18_FrameEffects ==
    [][/\ screen_width' = screen_width
       /\ op' \in {"move_player_left", "move_player_right"} => walls' = walls
       /\ op' \in {"step", "add_one_row"} => player' = player]_vars

\* a start column beyond the width is still there after a step
C18_Witness ==
    /\ op = "step"
    /\ screen_width >= 3
    /\ walls # <<>>
    /\ player >= screen_width

\* C19: through new, step and the player moves the row count stays at or
\* below IdxMax - 2, so the conversion of the count to the index type
\* succeeds and a pass over a non-empty tunnel of positive width is never
\* empty.
C19_PublicOpsNeverOverflow ==
    /\ Len(walls) <= IdxMax - 2
    /\ from_usize(Len(walls)) = Some(Len(walls))
    /\ (walls # <<>> /\ screen_width > 0) => Enumerate # <<>>

\* the largest tunnel after as many steps as the run allows
C19_Witness ==
    /\ op = "step"
    /\ height = IdxMax
    /\ Len(walls) = IdxMax - 2
    /\ Len(builder_calls) = MaxCalls

\* C20: for adjacent buffered rows i, i+1: the gap of row i+1 is the gap of
\* row i less one if that is above 1 and the same otherwise; the left walls
\* differ by at most 1; and for width >= 3 every passable column of row
\* i+1 is within one column of a passable column of row i.
C20_AdjacentRowsSmooth ==
    \A i \in 1..(Len(walls) - 1) :
        LET a == walls[i]
            b == walls[i + 1]
        IN  /\ b.gap_to_right_wall =
                   IF a.gap_to_right_wall > 1
                   THEN a.gap_to_right_wall - 1
                   ELSE a.gap_to_right_wall
            /\ b.left_wall - a.left_wall \in {-1, 0, 1}
            /\ screen_width >= 3 =>
                   \A c \in Passable(b) :
                       \E d \in Passable(a) : c - d \in {-1, 0, 1}

\* the corridor bends left and then right inside one buffer
C20_Witness ==
    /\ op = "step"
    /\ Len(walls) >= 3
    /\ walls[2].left_wall = walls[1].left_wall - 1
    /\ walls[3].left_wall = walls[2].left_wall + 1

====
